---- MODULE Spec2Model ----
(***************************************************************************)
(* Model of the cloud command micro-service (app/api/routes.py,            *)
(* app/api/utils.py): the command relay (thirteen command endpoints that   *)
(* forward a command to a gateway and interpret its acknowledgement) and   *)
(* the response correlator (three store endpoints and three retrieve       *)
(* endpoints over one shared Redis database).                              *)
(*                                                                         *)
(* A request handler that only calls the gateway is one atomic step (it    *)
(* touches no shared state).  A retrieve handler is a sequence of steps,   *)
(* one per Redis command it issues: the database is shared by every        *)
(* worker process, so the commands of two handlers interleave.             *)
(***************************************************************************)
EXTENDS Integers, Sequences, FiniteSets, TLC

\* ------------------------------------------------------------------ bounds

\* Number of store requests a behaviour may contain.
MaxStores == 2
\* Longest list of command uuids a retrieve request carries.
MaxUuids == 2

\* Command identifiers, callers, response kinds.
Ids == {"U1", "U2"}
Callers == {"c1", "c2"}
Kinds == {"sensor_state", "inference_layer", "sensor_config"}

\* Python's None; redis-py also answers None for a missing key.  bytes and
\* optional values are sequences, so None is the empty one: `if response:`
\* (utils.py line 32) is false for None and for b"" alike.
None == <<>>
Some(x) == <<x>>
Truthy(x) == x # None

RECURSIVE SeqsUpTo(_, _)
SeqsUpTo(S, n) ==
    IF n = 0 THEN {<<>>}
    ELSE LET shorter == SeqsUpTo(S, n - 1)
         IN shorter \cup {Append(s, x) : s \in {t \in shorter : Len(t) = n - 1}, x \in S}

UuidLists == SeqsUpTo(Ids, MaxUuids)

\* ------------------------------------------------------- utils.py, Redis

\* response.model_dump() of a validated response body: the dict that a store
\* endpoint hands to store_response_in_redis.  kind stands for the fields of
\* the schema that validated it, payload for their values.
model_dump(kind, command_uuid, payload) ==
    [command_uuid |-> command_uuid, kind |-> kind, payload |-> payload]

\* A faulty serialiser: the payload is lost.
json_dumps_without_payload(d) == <<d.command_uuid, d.kind, 0>>

\* json.dumps / json.loads: a dict becomes the text stored in Redis and back.
json_dumps(d) == <<d.command_uuid, d.kind, d.payload>>
json_loads(s) == [command_uuid |-> s[1], kind |-> s[2], payload |-> s[3]]

\* Faulty variants of the Redis commands: a SET that keeps an existing value,
\* a DELETE that removes nothing, a DELETE that empties the database.
redis_set_if_absent(db, key, value) ==
    IF db[key] = None THEN [db EXCEPT ![key] = value] ELSE db
redis_delete_nothing(db, key) == db
redis_delete_all(db, key) == [k \in DOMAIN db |-> None]

\* redis_client.set / get / delete on the shared database db.
redis_set(db, key, value) == [db EXCEPT ![key] = value]
redis_get(db, key) == db[key]
redis_delete(db, key) == [db EXCEPT ![key] = None]

\* The expiry of the keys after redis_client.set(key, value): SET is given no
\* ex / px argument, so the key is left without expiry.  After delete the key
\* is gone, and its expiry with it.  Redis removes a key by itself only when
\* an expiry is attached to it.
redis_set_expiry(expiry, key) == [expiry EXCEPT ![key] = None]
redis_delete_expiry(expiry, key) == [expiry EXCEPT ![key] = None]

\* A store that leaves alone an entry written by another kind's endpoint.
store_response_within_kind(db, command_uuid, response) ==
    IF db[command_uuid] # None /\ json_loads(db[command_uuid]).kind # response.kind
    THEN db
    ELSE redis_set(db, command_uuid, json_dumps(response))

\* store_response_in_redis: one SET of the serialised response, no expiry.
store_response_in_redis(db, command_uuid, response) ==
    redis_set(db, command_uuid, json_dumps(response))

\* s_resp_schemas.<Kind>Response(**response): the schema of a response kind
\* accepts the dict of a response of that kind.
SchemaAccepts(kind, d) == d.kind = kind

\* ------------------------------------------------------------------ state

VARIABLES
    redis,      \* the shared database: command uuid -> stored text, or None
    ttl,        \* the expiry Redis holds for each key, or None for no expiry
    call,       \* per caller: the request handler it runs and that handler's locals
    nStores,    \* store requests served so far; the n-th one carries payload n
    delivered,  \* payload -> times retrieve_response_from_redis has returned it
    replaced,   \* payloads overwritten by a store that followed their own store
    obs,        \* for the watched uuid: where the run of accesses
                \* "store, consume, consume" stands
    track,      \* per caller: what its retrieve found stored when it began, and
                \* whether nobody else has written to the database since
    announced,  \* the uuids that "get" commands have handed to callers
    scenario    \* who sends requests, the lists they send, the watched uuid,
                \* the replies the gateway gives

vars == <<redis, ttl, call, nStores, delivered, replaced, obs, track, announced, scenario>>

\* What a handler receives from the gateway: nothing yet.
NoReply == [reachable |-> FALSE, status_code |-> 0, body |-> [fmt |-> "none"]]
\* What a handler has answered to its caller: how it ended ("return", an
\* "HTTPException" it raised, or an "unhandled" exception), the HTTP status
\* the caller sees, and the body.
Result(outcome, status_code, detail) ==
    [outcome |-> outcome, status_code |-> status_code, detail |-> detail]
NoResult == Result("none", 0, [fmt |-> "none"])
\* The framework's answer to an exception no handler catches.
InternalServerError == Result("unhandled", 500, [fmt |-> "text"])
\* `return responses` of a retrieve handler (status_code=HTTP_200_OK).
ResponsesReturned == Result("return", 200, [fmt |-> "responses"])

IdleCall ==
    [pc |-> "idle", handler |-> "", kind |-> "", command_uuids |-> <<>>, i |-> 0,
     responses |-> <<>>, raw |-> None, response |-> None,
     cmd_response |-> NoReply, result |-> NoResult, posts |-> 0]

NoObs ==
    [phase |-> "none", r |-> None, prev |-> None, who |-> "", got |-> None,
     polled |-> FALSE]
NoTrack == [found |-> <<>>, clean |-> TRUE]

InitState ==
    /\ redis = [id \in Ids |-> None]
    /\ ttl = [id \in Ids |-> None]
    /\ call = [c \in Callers |-> IdleCall]
    /\ nStores = 0
    /\ delivered = [n \in 1..MaxStores |-> 0]
    /\ replaced = {}
    /\ obs = NoObs
    /\ track = [c \in Callers |-> NoTrack]
    /\ announced = {}

\* Every caller sends requests, with any list of uuids.
Init ==
    /\ InitState
    /\ scenario \in [callers : {Callers}, lists : {UuidLists}, watch : Ids,
                    gateway : {"any"}]

\* A caller may send a request when its previous one has been answered.
Ready(c) == c \in scenario.callers /\ call[c].pc \in {"idle", "done", "error"}

\* The key of the Redis command caller c is about to issue.
CurrentUuid(c) == call[c].command_uuids[call[c].i]

\* Some retrieve has read uuid and has not issued its delete yet.
InFlight(uuid) ==
    \E c \in Callers : call[c].pc = "delete" /\ CurrentUuid(c) = uuid

\* The retrieves in progress, other than c's, have seen a foreign write.
Disturbed(c) ==
    [x \in Callers |->
        IF x # c /\ call[x].pc \in {"get", "delete"}
        THEN [track[x] EXCEPT !.clean = FALSE]
        ELSE track[x]]

\* The records a retrieve of command_uuids finds in database db: for each uuid
\* at its first place in the list, the stored record if there is one.
RECURSIVE Found(_, _, _)
Found(db, command_uuids, n) ==
    IF n = 0 THEN <<>>
    ELSE LET uuid == command_uuids[n]
             first == \A m \in 1..(n - 1) : command_uuids[m] # uuid
         IN IF first /\ db[uuid] # None
            THEN Append(Found(db, command_uuids, n - 1), db[uuid])
            ELSE Found(db, command_uuids, n - 1)

\* obs after a SET of response under the watched uuid; polled tells whether a
\* "get" command had handed that uuid to a caller before.
ObsSet(o, inflight, response, polled) ==
    IF inflight THEN NoObs
    ELSE [phase |-> "stored", r |-> Some(response),
          prev |-> IF o.phase = "stored" THEN o.r ELSE None,
          who |-> "", got |-> None, polled |-> polled]

\* obs after caller c's GET of the watched uuid answered raw.
ObsGet(o, c, raw) ==
    CASE o.phase = "stored" /\ Truthy(raw) -> [o EXCEPT !.phase = "reading", !.who = c]
      [] o.phase = "stored" /\ ~Truthy(raw) -> [o EXCEPT !.phase = "consumed", !.who = c]
      [] o.phase = "consumed" /\ Truthy(raw) -> [o EXCEPT !.phase = "rereading", !.who = c]
      [] o.phase = "consumed" /\ ~Truthy(raw) ->
            [o EXCEPT !.phase = "reread", !.who = c, !.got = None]
      [] OTHER -> NoObs

\* obs after caller c's DELETE of the watched uuid, its consume returning ret.
ObsDel(o, c, ret) ==
    CASE o.phase = "reading" /\ o.who = c ->
            [o EXCEPT !.phase = "consumed", !.got = Some(ret)]
      [] o.phase = "rereading" /\ o.who = c ->
            [o EXCEPT !.phase = "reread", !.got = Some(ret)]
      [] OTHER -> NoObs

\* ------------------------------------------- routes.py, store endpoints

\* The body of the three store handlers: the gateway posts a response of the
\* handler's kind; it is stored under response.metadata.command_uuid.
StoreHandler(kind) ==
    \E uuid \in Ids :
        /\ nStores < MaxStores
        /\ LET response == model_dump(kind, uuid, nStores + 1)
               command_uuid == response.command_uuid
               old == redis_get(redis, command_uuid)
               watched == command_uuid = scenario.watch
           IN /\ redis' = store_response_in_redis(redis, command_uuid, response)
              /\ ttl' = redis_set_expiry(ttl, command_uuid)
              /\ obs' = IF watched
                        THEN ObsSet(obs, InFlight(command_uuid), response,
                                    command_uuid \in announced)
                        ELSE obs
              /\ replaced' =
                    IF watched /\ obs.phase = "stored" /\ ~InFlight(command_uuid)
                       /\ Truthy(old)
                    THEN replaced \cup {json_loads(old).payload}
                    ELSE replaced
        /\ nStores' = nStores + 1
        /\ track' = Disturbed("")
        /\ UNCHANGED <<call, delivered, announced, scenario>>

store_get_sensor_state_response == StoreHandler("sensor_state")
store_get_inference_layer_response == StoreHandler("inference_layer")
store_get_sensor_config_response == StoreHandler("sensor_config")

\* ---------------------------------------- routes.py, retrieve endpoints

\* Entry of the three retrieve handlers: responses = [] and the loop over
\* command_uuids begins; an empty list is answered at once.
RetrieveHandler(c, kind, name) ==
    \E command_uuids \in scenario.lists :
        /\ Ready(c)
        /\ call' = [call EXCEPT ![c] =
                [IdleCall EXCEPT
                    !.pc = IF command_uuids = <<>> THEN "done" ELSE "get",
                    !.handler = name, !.kind = kind,
                    !.command_uuids = command_uuids, !.i = 1,
                    !.result = IF command_uuids = <<>>
                               THEN ResponsesReturned
                               ELSE NoResult]]
        /\ track' = [track EXCEPT ![c] =
                [found |-> Found(redis, command_uuids, Len(command_uuids)),
                 clean |-> TRUE]]
        /\ UNCHANGED <<redis, ttl, nStores, delivered, replaced, obs, announced, scenario>>

retrieve_get_sensor_state_response(c) ==
    RetrieveHandler(c, "sensor_state", "retrieve_get_sensor_state_response")
retrieve_get_inference_layer_response(c) ==
    RetrieveHandler(c, "inference_layer", "retrieve_get_inference_layer_response")
retrieve_get_sensor_config_response(c) ==
    RetrieveHandler(c, "sensor_config", "retrieve_get_sensor_config_response")

\* A loop that answers 404 when it ends with nothing found.
ContinueOrNotFound(k) ==
    IF k.i < Len(k.command_uuids)
    THEN [k EXCEPT !.i = @ + 1, !.pc = "get"]
    ELSE IF k.responses = <<>>
         THEN [k EXCEPT !.pc = "error",
                        !.result = Result("HTTPException", 404, [fmt |-> "text"])]
         ELSE [k EXCEPT !.pc = "done", !.result = ResponsesReturned]

\* The handler's locals after the loop body for command_uuids[i] has ended
\* without an exception: the next uuid, or `return responses`.
Continue(k) ==
    IF k.i < Len(k.command_uuids)
    THEN [k EXCEPT !.i = @ + 1, !.pc = "get"]
    ELSE [k EXCEPT !.pc = "done", !.result = ResponsesReturned]

\* The loop body after retrieve_response_from_redis has returned a dict:
\* the kind's schema is built from it and appended; a dict the schema rejects
\* raises, and the request is answered 500.
AppendResponse(k, d) ==
    IF SchemaAccepts(k.kind, d)
    THEN Continue([k EXCEPT !.response = Some(d), !.responses = Append(@, d)])
    ELSE [k EXCEPT !.response = Some(d), !.pc = "error",
                   !.result = InternalServerError]

\* retrieve_response_from_redis, first half: response = redis_client.get(uuid).
\* A missing key returns None to the handler, which continues with the next.
retrieve_response_from_redis_get(c) ==
    /\ call[c].pc = "get"
    /\ LET command_uuid == CurrentUuid(c)
           response == redis_get(redis, command_uuid)
       IN /\ call' = [call EXCEPT ![c] =
                IF Truthy(response)
                THEN [@ EXCEPT !.raw = response, !.pc = "delete"]
                ELSE Continue([@ EXCEPT !.raw = None, !.response = None])]
          /\ obs' = IF command_uuid = scenario.watch
                    THEN ObsGet(obs, c, response)
                    ELSE obs
    /\ UNCHANGED <<redis, ttl, nStores, delivered, replaced, track, announced, scenario>>

\* retrieve_response_from_redis, second half: redis_client.delete(uuid) and
\* return json.loads(response); then the rest of the handler's loop body.
retrieve_response_from_redis_delete(c) ==
    /\ call[c].pc = "delete"
    /\ LET command_uuid == CurrentUuid(c)
           d == json_loads(call[c].raw)
       IN /\ redis' = redis_delete(redis, command_uuid)
          /\ ttl' = redis_delete_expiry(ttl, command_uuid)
          /\ call' = [call EXCEPT ![c] = AppendResponse([@ EXCEPT !.raw = None], d)]
          /\ delivered' = [delivered EXCEPT ![d.payload] = @ + 1]
          /\ obs' = IF command_uuid = scenario.watch
                    THEN ObsDel(obs, c, d)
                    ELSE obs
    /\ track' = Disturbed(c)
    /\ UNCHANGED <<nStores, replaced, announced, scenario>>

\* ------------------------------------------------ the gateway's replies

\* Status codes a gateway answers with.
DeviceStatuses == {200, 202, 404, 500}

\* Bodies a gateway answers with: text that is not JSON; a JSON object, with
\* or without a "command_uuids" list; a JSON list of devices, each a JSON
\* object ("device") or a JSON string ("string").
TextBody == [fmt |-> "text"]
ObjectBodies ==
    {[fmt |-> "object", command_uuids |-> u] :
        u \in {None, Some(<<"U1">>), Some(<<"U1", "U2">>)}}
ListBodies ==
    {[fmt |-> "list", devices |-> l] : l \in {<<>>, <<"device">>, <<"string">>}}
Bodies == {TextBody} \cup ObjectBodies \cup ListBodies

\* What `await client.post(...)` ends with: a response of the gateway, or an
\* httpx exception (connection refused, the 20 s timeout).
Replies == [reachable : {TRUE}, status_code : DeviceStatuses, body : Bodies]
TransportFailure == [reachable |-> FALSE, status_code |-> 0, body |-> [fmt |-> "none"]]

\* The replies of the gateway in a scenario: any reply, or a sample holding
\* an acknowledgement with two identifiers, a list of devices, a rejection,
\* a reply that is no JSON and a transport failure.
SampleReplies ==
    {[reachable |-> TRUE, status_code |-> 202,
      body |-> [fmt |-> "object", command_uuids |-> Some(<<"U1", "U2">>)]],
     [reachable |-> TRUE, status_code |-> 200,
      body |-> [fmt |-> "list", devices |-> <<"device">>]],
     [reachable |-> TRUE, status_code |-> 404,
      body |-> [fmt |-> "object", command_uuids |-> None]],
     [reachable |-> TRUE, status_code |-> 500, body |-> [fmt |-> "text"]],
     TransportFailure}
GatewayReplies ==
    IF scenario.gateway = "sample" THEN SampleReplies ELSE Replies \cup {TransportFailure}

\* cmd_response.json() raises on a body that is not JSON.
JsonRaises(body) == body.fmt = "text"

\* gw_cmd_schemas.BLEDevice(**device): a JSON object of a device is accepted;
\* `**` of anything that is no mapping raises.
BLEDeviceAccepts(device) == device = "device"

\* ---------------------------------------- routes.py, command endpoints

\* The status each command handler compares cmd_response.status_code with.
HTTP_200_OK == 200
HTTP_202_ACCEPTED == 202

\* A handler that answers a sensor get command without the identifiers of the
\* gateway's reply.
SuccessResultWithoutUuids(reads, body) ==
    CASE reads = "message" -> Result("return", HTTP_202_ACCEPTED, [fmt |-> "message"])
      [] reads = "command_uuids" ->
            IF body.fmt = "object"
            THEN Result("return", HTTP_202_ACCEPTED,
                        [fmt |-> "message", command_uuids |-> None])
            ELSE InternalServerError
      [] reads = "devices" ->
            IF body.fmt = "list" /\ \A j \in 1..Len(body.devices) : BLEDeviceAccepts(body.devices[j])
            THEN Result("return", HTTP_202_ACCEPTED,
                        [fmt |-> "devices", devices |-> body.devices])
            ELSE InternalServerError

\* What the handler does after the status check has passed.  "message": it
\* returns a fixed message.  "command_uuids": it returns the message and
\* cmd_response.json().get("command_uuids").  "devices": it returns
\* [BLEDevice(**device) for device in cmd_response.json()].
SuccessResult(reads, body) ==
    CASE reads = "message" -> Result("return", HTTP_202_ACCEPTED, [fmt |-> "message"])
      [] reads = "command_uuids" ->
            IF body.fmt = "object"
            THEN Result("return", HTTP_202_ACCEPTED,
                        [fmt |-> "message", command_uuids |-> body.command_uuids])
            ELSE InternalServerError
      [] reads = "devices" ->
            IF body.fmt = "list" /\ \A j \in 1..Len(body.devices) : BLEDeviceAccepts(body.devices[j])
            THEN Result("return", HTTP_202_ACCEPTED,
                        [fmt |-> "devices", devices |-> body.devices])
            ELSE InternalServerError

\* The answer of a command handler to the gateway's reply: post_json's
\* exception is not caught; a status other than the expected one raises
\* HTTPException(status_code=cmd_response.status_code, detail=cmd_response.json()).
CommandResult(expected, reads, cmd_response) ==
    IF ~cmd_response.reachable THEN InternalServerError
    ELSE IF cmd_response.status_code # expected
         THEN IF JsonRaises(cmd_response.body) THEN InternalServerError
              ELSE Result("HTTPException", cmd_response.status_code, cmd_response.body)
         ELSE SuccessResult(reads, cmd_response.body)

\* A post_json that posts again when the gateway cannot be reached or answers
\* with a server error.
post_json_calls_with_retry(cmd_response) ==
    IF cmd_response.reachable /\ cmd_response.status_code < 500 THEN 1 ELSE 2

\* The number of client.post calls of one post_json: a single `await
\* client.post(...)`, in no loop and under no exception handler, whatever the
\* gateway answers.
post_json_calls(cmd_response) == 1

\* A command handler that clears the stored responses of the identifiers the
\* gateway has just acknowledged.
CommandHandlerClearingStore(c, name, expected, reads) ==
    \E cmd_response \in GatewayReplies :
        /\ Ready(c)
        /\ LET result == CommandResult(expected, reads, cmd_response)
               acknowledged ==
                    IF result.outcome = "return" /\ reads = "command_uuids"
                       /\ result.detail.command_uuids # None
                    THEN {result.detail.command_uuids[1][j] :
                            j \in 1..Len(result.detail.command_uuids[1])}
                    ELSE {}
           IN /\ call' = [call EXCEPT ![c] =
                    [IdleCall EXCEPT
                        !.pc = IF result.outcome = "return" THEN "done" ELSE "error",
                        !.handler = name, !.cmd_response = cmd_response,
                        !.result = result,
                        !.posts = post_json_calls(cmd_response)]]
              /\ announced' = announced \cup acknowledged
              /\ redis' = [id \in Ids |-> IF id \in acknowledged THEN None ELSE redis[id]]
        /\ track' = [track EXCEPT ![c] = NoTrack]
        /\ UNCHANGED <<ttl, nStores, delivered, replaced, obs, scenario>>

\* The body of the thirteen command handlers: one post_json to the gateway,
\* then the answer to the caller.
CommandHandler(c, name, expected, reads) ==
    \E cmd_response \in GatewayReplies :
        /\ Ready(c)
        /\ LET result == CommandResult(expected, reads, cmd_response)
           IN /\ call' = [call EXCEPT ![c] =
                    [IdleCall EXCEPT
                        !.pc = IF result.outcome = "return" THEN "done" ELSE "error",
                        !.handler = name, !.cmd_response = cmd_response,
                        !.result = result,
                        !.posts = post_json_calls(cmd_response)]]
              /\ announced' =
                    IF result.outcome = "return" /\ reads = "command_uuids"
                       /\ result.detail.command_uuids # None
                    THEN announced \cup
                         {result.detail.command_uuids[1][j] :
                            j \in 1..Len(result.detail.command_uuids[1])}
                    ELSE announced
        /\ track' = [track EXCEPT ![c] = NoTrack]
        /\ UNCHANGED <<redis, ttl, nStores, delivered, replaced, obs, scenario>>

get_available_sensors(c) ==
    CommandHandler(c, "get_available_sensors", HTTP_200_OK, "devices")
get_provisioned_sensors(c) ==
    CommandHandler(c, "get_provisioned_sensors", HTTP_200_OK, "devices")
add_provisioned_sensors(c) ==
    CommandHandler(c, "add_provisioned_sensors", HTTP_200_OK, "message")
add_registered_sensors(c) ==
    CommandHandler(c, "add_registered_sensors", HTTP_200_OK, "message")
set_gateway_model(c) ==
    CommandHandler(c, "set_gateway_model", HTTP_202_ACCEPTED, "message")
set_sensor_state(c) ==
    CommandHandler(c, "set_sensor_state", HTTP_202_ACCEPTED, "message")
command_get_sensor_state(c) ==
    CommandHandler(c, "command_get_sensor_state", HTTP_202_ACCEPTED, "command_uuids")
set_inference_layer(c) ==
    CommandHandler(c, "set_inference_layer", HTTP_202_ACCEPTED, "message")
command_get_inference_layer(c) ==
    CommandHandler(c, "command_get_inference_layer", HTTP_202_ACCEPTED, "command_uuids")
set_sensor_config(c) ==
    CommandHandler(c, "set_sensor_config", HTTP_202_ACCEPTED, "message")
command_get_sensor_config(c) ==
    CommandHandler(c, "command_get_sensor_config", HTTP_202_ACCEPTED, "command_uuids")
set_sensor_model(c) ==
    CommandHandler(c, "set_sensor_model", HTTP_202_ACCEPTED, "message")
set_inf_latency_bench(c) ==
    CommandHandler(c, "set_inf_latency_bench", HTTP_202_ACCEPTED, "message")

NextRelay ==
    \/ \E c \in Callers : get_available_sensors(c)
    \/ \E c \in Callers : get_provisioned_sensors(c)
    \/ \E c \in Callers : add_provisioned_sensors(c)
    \/ \E c \in Callers : add_registered_sensors(c)
    \/ \E c \in Callers : set_gateway_model(c)
    \/ \E c \in Callers : set_sensor_state(c)
    \/ \E c \in Callers : command_get_sensor_state(c)
    \/ \E c \in Callers : set_inference_layer(c)
    \/ \E c \in Callers : command_get_inference_layer(c)
    \/ \E c \in Callers : set_sensor_config(c)
    \/ \E c \in Callers : command_get_sensor_config(c)
    \/ \E c \in Callers : set_sensor_model(c)
    \/ \E c \in Callers : set_inf_latency_bench(c)

\* One caller sends requests, with any list of uuids.
InitOneCaller ==
    /\ InitState
    /\ scenario \in [callers : {{"c1"}}, lists : {UuidLists}, watch : Ids,
                    gateway : {"any"}]

\* One caller sends commands; nothing is stored or retrieved.
SpecRelay == InitOneCaller /\ [][NextRelay]_vars

NextCorrelator ==
    \/ store_get_sensor_state_response
    \/ store_get_inference_layer_response
    \/ store_get_sensor_config_response
    \/ \E c \in Callers : retrieve_get_sensor_state_response(c)
    \/ \E c \in Callers : retrieve_get_inference_layer_response(c)
    \/ \E c \in Callers : retrieve_get_sensor_config_response(c)
    \/ \E c \in Callers : retrieve_response_from_redis_get(c)
    \/ \E c \in Callers : retrieve_response_from_redis_delete(c)

\* One caller polls with lists of uuids while gateways store responses.
SpecBatch == InitOneCaller /\ [][NextCorrelator]_vars

\* Two callers poll one uuid concurrently while gateways store responses.
InitRace ==
    /\ InitState
    /\ scenario \in {[callers |-> Callers, lists |-> {<<uuid>>}, watch |-> uuid,
                      gateway |-> "any"] :
                        uuid \in Ids}

SpecRace == InitRace /\ [][NextCorrelator]_vars

\* One caller asks for sensor states and polls the watched uuid with the
\* sensor-state retrieve endpoint, while gateways store responses of any kind.
InitEndToEnd ==
    /\ InitState
    /\ scenario \in {[callers |-> {"c1"}, lists |-> {<<uuid>>}, watch |-> uuid,
                      gateway |-> "any"] :
                        uuid \in Ids}

NextEndToEnd ==
    \/ \E c \in Callers : command_get_sensor_state(c)
    \/ store_get_sensor_state_response
    \/ store_get_inference_layer_response
    \/ store_get_sensor_config_response
    \/ \E c \in Callers : retrieve_get_sensor_state_response(c)
    \/ \E c \in Callers : retrieve_response_from_redis_get(c)
    \/ \E c \in Callers : retrieve_response_from_redis_delete(c)

SpecEndToEnd == InitEndToEnd /\ [][NextEndToEnd]_vars

\* The whole service.
Next == NextRelay \/ NextCorrelator

Spec == Init /\ [][Next]_vars

\* The whole service with one caller, retrievals of the watched uuid and a
\* sample of the gateway's replies: every command endpoint next to the
\* stores and the retrievals.
InitService ==
    /\ InitState
    /\ scenario = [callers |-> {"c1"}, lists |-> {<<"U1">>}, watch |-> "U1",
                    gateway |-> "sample"]

SpecService == InitService /\ [][Next]_vars

\* ------------------------------------------------------------------ claims

RetrieveHandlers ==
    {"retrieve_get_sensor_state_response", "retrieve_get_inference_layer_response",
     "retrieve_get_sensor_config_response"}

\* Caller c's retrieve has ended, and nobody else wrote to the database
\* while it ran.
RetrieveEndedUndisturbed(c) ==
    /\ call[c].handler \in RetrieveHandlers
    /\ call[c].pc \in {"done", "error"}
    /\ track[c].clean

\* The dicts of the stored texts in found, in order.
Loaded(found) == [j \in 1..Len(found) |-> json_loads(found[j])]

\* C1: two callers consuming the same uuid concurrently: no stored record is
\* returned by more than one retrieval, so the two callers never both hold the
\* same record.
C1_SingleConsumer ==
    /\ \A n \in 1..MaxStores : delivered[n] <= 1
    /\ \A c, x \in Callers :
          (c # x /\ call[c].response # None) => call[c].response # call[x].response

\* C2: consume(id) right after store(id, r), nothing else touching id in
\* between, returns a record equal to r and leaves no entry for id; a second
\* consume(id) right after that returns nothing.
C2_StoreConsumeConsume ==
    /\ obs.phase = "consumed" => (obs.got = obs.r /\ redis[scenario.watch] = None)
    /\ obs.phase = "reread" => obs.got = None

C2_Witness == obs.phase = "reread" /\ obs.got = None /\ obs.prev = None

\* C3: after store(id, r1) then store(id, r2) with no consume(id) in between,
\* the next consume(id) returns r2, the one after it returns nothing, and r1
\* is never returned by any consume.
C3_LastWriteWins ==
    /\ obs.prev # None =>
          /\ obs.phase = "consumed" =>
                (obs.got = obs.r /\ obs.got # obs.prev /\ redis[scenario.watch] = None)
          /\ obs.phase = "reread" => obs.got = None
    /\ \A n \in replaced : delivered[n] = 0

C3_Witness == obs.prev # None /\ obs.phase = "reread" /\ replaced # {}

\* C4: a store under uuid a, and a consume of a, change no entry but a's, and
\* the record a consume of b returns is one stored under b.
C4_OtherUuidsUntouched ==
    [][/\ nStores' = nStores + 1 =>
            \A b \in Ids :
                redis'[b] # redis[b] =>
                    /\ redis'[b] # None
                    /\ json_loads(redis'[b]).command_uuid = b
                    /\ json_loads(redis'[b]).payload = nStores'
       /\ \A c \in Callers :
            (call[c].pc \in {"get", "delete"} /\ call'[c] # call[c]) =>
                /\ \A b \in Ids : b # CurrentUuid(c) => redis'[b] = redis[b]
                /\ call[c].pc = "delete" =>
                      /\ call'[c].response # None
                      /\ call'[c].response[1].command_uuid = CurrentUuid(c)
       /\ (nStores' = nStores /\ \A c \in Callers : call[c].pc \notin {"get", "delete"})
            => redis' = redis
      ]_vars

C4_Witness ==
    \E c \in Callers, b \in Ids :
        /\ call[c].response # None
        /\ call[c].response[1].command_uuid # b
        /\ redis[b] # None
        /\ json_loads(redis[b]).payload < call[c].response[1].payload

\* C5: a retrieve that nobody disturbs returns exactly the records of the
\* requested uuids that had one stored when it began, in the order requested.
C5_RetrieveReturnsStored ==
    \A c \in Callers :
        RetrieveEndedUndisturbed(c) =>
            /\ call[c].pc = "done"
            /\ call[c].responses = Loaded(track[c].found)

\* C5, for the retrieves that return: what they return is as C5 says.
RetrieveReturnsStoredWhenDone ==
    \A c \in Callers :
        (RetrieveEndedUndisturbed(c) /\ call[c].pc = "done") =>
            call[c].responses = Loaded(track[c].found)

\* C6: a retrieve always ends in success (never in an error), and returns the
\* empty list when no requested uuid has a record.
C6_RetrieveAlwaysSucceeds ==
    \A c \in Callers :
        call[c].handler \in RetrieveHandlers =>
            /\ call[c].pc # "error"
            /\ call[c].result.outcome \in {"none", "return"}
            /\ (RetrieveEndedUndisturbed(c) /\ track[c].found = <<>>) =>
                    call[c].responses = <<>>

CommandHandlers ==
    {"get_available_sensors", "get_provisioned_sensors", "add_provisioned_sensors",
     "add_registered_sensors", "set_gateway_model", "set_sensor_state",
     "command_get_sensor_state", "set_inference_layer", "command_get_inference_layer",
     "set_sensor_config", "command_get_sensor_config", "set_sensor_model",
     "set_inf_latency_bench"}

\* The status C9 gives each command endpoint: 200 for the gateway get and add
\* commands, 202 for set-gateway-model and every sensor command.
ClaimedStatus(handler) ==
    IF handler \in {"get_available_sensors", "get_provisioned_sensors",
                    "add_provisioned_sensors", "add_registered_sensors"}
    THEN 200 ELSE 202

\* Caller c's last request was a command that the gateway answered / that
\* failed in transport.
CommandAnswered(c) ==
    call[c].handler \in CommandHandlers /\ call[c].cmd_response.reachable
CommandUnreachable(c) ==
    call[c].handler \in CommandHandlers /\ ~call[c].cmd_response.reachable

\* C7: a gateway reply with a status other than the expected one reaches the
\* caller as an error with the gateway's status code and the gateway's body.
C7_RejectionPropagated ==
    \A c \in Callers :
        (CommandAnswered(c)
         /\ call[c].cmd_response.status_code # ClaimedStatus(call[c].handler)) =>
            /\ call[c].result.outcome = "HTTPException"
            /\ call[c].result.status_code = call[c].cmd_response.status_code
            /\ call[c].result.detail = call[c].cmd_response.body

\* C7, for the replies whose body is JSON.
RejectionPropagatedWhenJson ==
    \A c \in Callers :
        (CommandAnswered(c)
         /\ call[c].cmd_response.status_code # ClaimedStatus(call[c].handler)
         /\ ~JsonRaises(call[c].cmd_response.body)) =>
            /\ call[c].result.outcome = "HTTPException"
            /\ call[c].result.status_code = call[c].cmd_response.status_code
            /\ call[c].result.detail = call[c].cmd_response.body

\* The statuses of a service-unavailable-class error.
ServiceUnavailableClass == {502, 503, 504}

\* C8: a transport failure of the outbound call reaches the caller as a
\* service-unavailable-class error, and as an answer that no reply of a
\* reachable gateway with a non-matching status produces.
C8_TransportFailureDistinct ==
    \A c \in Callers :
        CommandUnreachable(c) =>
            /\ call[c].result.status_code \in ServiceUnavailableClass
            /\ \A reply \in Replies :
                  reply.status_code # ClaimedStatus(call[c].handler) =>
                      CommandResult(ClaimedStatus(call[c].handler), "message", reply)
                          # call[c].result

\* C9: a command reports success exactly when the gateway's status is the
\* endpoint's expected one; any other status, the other success code
\* included, is a failure.
C9_SuccessIffExpectedStatus ==
    \A c \in Callers :
        CommandAnswered(c) =>
            (call[c].result.outcome = "return"
                <=> call[c].cmd_response.status_code = ClaimedStatus(call[c].handler))

\* C9, one direction: success only with the expected status.
SuccessOnlyWithExpectedStatus ==
    \A c \in Callers :
        (CommandAnswered(c) /\ call[c].result.outcome = "return") =>
            call[c].cmd_response.status_code = ClaimedStatus(call[c].handler)

\* The caller that last consumed the watched uuid has its sensor-state
\* retrieve of that uuid answered.
WatchedRetrieveEnded ==
    /\ obs.phase \in {"consumed", "reread"}
    /\ call[obs.who].handler = "retrieve_get_sensor_state_response"
    /\ call[obs.who].pc \in {"done", "error"}

\* C10: a get-sensor-state command has returned the uuid, the gateway then
\* stores a sensor-state response under it: a retrieve of [uuid] returns that
\* one response, and the retrieve of [uuid] after it returns the empty list.
C10_EndToEnd ==
    (/\ obs.polled
     /\ obs.r # None
     /\ obs.r[1].kind = "sensor_state"
     /\ WatchedRetrieveEnded) =>
        /\ call[obs.who].pc = "done"
        /\ obs.phase = "consumed" => call[obs.who].responses = <<obs.r[1]>>
        /\ obs.phase = "reread" => call[obs.who].responses = <<>>

C10_Witness ==
    /\ obs.polled
    /\ obs.r # None
    /\ obs.r[1].kind = "sensor_state"
    /\ WatchedRetrieveEnded
    /\ obs.phase = "reread"
    /\ call[obs.who].responses = <<>>

\* C11: every stored record leaves the store in the end: a retrieval removes
\* it, and one that is never retrieved carries an expiry from the moment it is
\* stored, so that Redis removes it.
C11_StoredRecordExpires ==
    \A uuid \in Ids : redis[uuid] # None => ttl[uuid] # None

\* The command endpoints the claims call "get" style: the two gateway get
\* commands and the three sensor get commands.
GatewayGetHandlers == {"get_available_sensors", "get_provisioned_sensors"}
SensorGetHandlers ==
    {"command_get_sensor_state", "command_get_inference_layer", "command_get_sensor_config"}

\* Caller c's last request was a command that the handler answered with success.
CommandSucceeded(c) == CommandAnswered(c) /\ call[c].result.outcome = "return"

\* The success body carries the command_uuids entry of the gateway's reply.
CarriesAcknowledgedUuids(c) ==
    /\ call[c].result.detail.fmt = "message"
    /\ "command_uuids" \in DOMAIN call[c].result.detail
    /\ call[c].result.detail.command_uuids = call[c].cmd_response.body.command_uuids

CommandStep(c) == call'[c] # call[c] /\ call'[c].handler \in CommandHandlers

\* Caller c's step starts the serving of a request.
RequestStarts(c) == call[c].pc \in {"idle", "done", "error"} /\ call'[c] # call[c]

\* C13: a dispatch of any command kind, whatever its outcome, leaves the
\* response store as it is, and what the handler held while serving it is
\* gone when the next request starts: the store, a later dispatch, a store or
\* a retrieval start from nothing of it.
C13_DispatchKeepsNoState ==
    [][\A c \in Callers :
        /\ CommandStep(c) =>
              /\ redis' = redis
              /\ ttl' = ttl
              /\ \A other \in Callers \ {c} : call'[other] = call[other]
        /\ (RequestStarts(c) /\ call[c].handler \in CommandHandlers) =>
              IF call'[c].handler \in CommandHandlers
              THEN call'[c] = [IdleCall EXCEPT
                                  !.pc = call'[c].pc, !.handler = call'[c].handler,
                                  !.cmd_response = call'[c].cmd_response,
                                  !.result = call'[c].result, !.posts = call'[c].posts]
              ELSE /\ call'[c].cmd_response = IdleCall.cmd_response
                   /\ call'[c].posts = IdleCall.posts
                   /\ call'[c].responses = <<>>]_vars

C13_Witness ==
    \E c \in Callers :
        /\ call[c].handler \in CommandHandlers
        /\ call[c].pc = "error"
        /\ \E uuid \in Ids : redis[uuid] # None

\* Caller c's step is the read of a retrieval that finds no record under the
\* uuid it asks for.
ConsumeMisses(c) ==
    call[c].pc = "get" /\ call'[c] # call[c] /\ redis[CurrentUuid(c)] = None

\* C15: consuming a uuid that holds no record returns nothing to the handler
\* and raises no error, and it leaves every entry of the store as it is.
C15_MissLeavesStoreAlone ==
    [][\A c \in Callers :
        ConsumeMisses(c) =>
            /\ redis' = redis
            /\ ttl' = ttl
            /\ call'[c].response = None
            /\ call'[c].responses = call[c].responses
            /\ call'[c].pc \in {"get", "done"}]_vars

C15_Witness ==
    \E c \in Callers :
        /\ call[c].handler \in RetrieveHandlers
        /\ call[c].pc = "done"
        /\ call[c].command_uuids # <<>>
        /\ call[c].responses = <<>>
        /\ track[c].found = <<>>
        /\ \E uuid \in Ids : redis[uuid] # None

\* C16: when a store of r2 under a uuid runs alongside a consume of the same
\* uuid that holds r1, every record a consume removes from the store is the
\* record that consume returns: no record leaves the store without being
\* delivered, unless a later store overwrote it.
C16_RemovedRecordIsReturned ==
    [][\A c \in Callers :
        (call[c].pc = "delete" /\ call'[c] # call[c]) =>
            redis[CurrentUuid(c)] \in {None, call[c].raw}]_vars

\* The uuids caller c asked for that held a record when its retrieval began.
RequestedWithRecord(c) ==
    {call[c].command_uuids[j] : j \in 1..Len(call[c].command_uuids)}
    \cap {json_loads(track[c].found[j]).command_uuid : j \in 1..Len(track[c].found)}

\* C17: in a retrieval that no store runs alongside, a uuid that occurs more
\* than once in the request contributes its record at most once: the result
\* is no longer than the number of distinct requested uuids that held a
\* record.
C17_DuplicateContributesOnce ==
    \A c \in Callers :
        (call[c].handler \in RetrieveHandlers /\ track[c].clean) =>
            Len(call[c].responses) <= Cardinality(RequestedWithRecord(c))

C17_Witness ==
    \E c \in Callers :
        /\ RetrieveEndedUndisturbed(c)
        /\ call[c].pc = "done"
        /\ Len(call[c].command_uuids) = 2
        /\ call[c].command_uuids[1] = call[c].command_uuids[2]
        /\ Len(call[c].responses) = 1

\* C18: the three response kinds share one keyspace, keyed by the command
\* uuid alone.  A retrieval through any kind's endpoint reads and deletes the
\* entry under the uuid whichever kind's store wrote it, and a store through
\* any kind's endpoint overwrites the entry under its uuid whichever kind
\* wrote it.
C18_OneKeyspace ==
    [][/\ \A c \in Callers :
            /\ (call[c].pc = "get" /\ call'[c] # call[c]
                /\ redis[CurrentUuid(c)] # None) =>
                    /\ call'[c].pc = "delete"
                    /\ call'[c].raw = redis[CurrentUuid(c)]
            /\ (call[c].pc = "delete" /\ call'[c] # call[c]) =>
                    /\ redis'[CurrentUuid(c)] = None
                    /\ call'[c].response = Some(json_loads(call[c].raw))
       /\ nStores' # nStores =>
            \E uuid \in Ids, kind \in Kinds :
                redis' = [redis EXCEPT
                             ![uuid] = json_dumps(model_dump(kind, uuid, nStores'))]]_vars

C18_Witness ==
    \E c \in Callers :
        /\ call[c].handler \in RetrieveHandlers
        /\ call[c].response # None
        /\ call[c].response[1].kind # call[c].kind
        /\ redis[call[c].response[1].command_uuid] = None

====
